---- MODULE Spec2Model ----
(***************************************************************************)
(* VaultMesh: receipts, Merkle sealing/anchoring/verification (main.rs),   *)
(* receipt signing (receipt.rs), content-addressed ledger (ledger.rs),     *)
(* peer policy (sync/policy.rs) and the ingestion gateway (gateway.rs).    *)
(*                                                                         *)
(* Digests are modelled as natural numbers; the hex order of two digests   *)
(* is the order of the numbers.  blake3 is modelled as an injective        *)
(* function of its input bytes (no collisions).                            *)
(***************************************************************************)
EXTENDS Integers, Sequences, FiniteSets, TLC

\* ---------------------------------------------------------------- bounds
\* Largest leaf digest fed to the Merkle engine in SpecMerkle.
MaxLeafVal == 5
\* Longest leaf batch fed to the Merkle engine in SpecMerkle.
MaxLeaves == 4
\* Receipt files the directory can hold (one emitted receipt per slot).
MaxFiles == 3
\* Top-level members of the record canonicalized in SpecCanon.
MaxKeys == 4
\* Keypairs (and actor ids) of SpecSign.
NumKeys == 2
\* POST verify requests of SpecGateway.
NumReqs == 2
\* Every digest of a canonical payload is below this; pair digests are above.
LeafSpace == 32

VARIABLES
    m_pc,       \* SpecMerkle: "input" | "built" | "folded"
    m_in,       \* SpecMerkle: the leaf sequence handed to build_merkle
    m_out,      \* SpecMerkle: build_merkle(m_in) = [root, paths]
    m_sorted,   \* SpecMerkle: build_merkle over the sorted leaves (Seal's call)
    m_leaf,     \* SpecMerkle: the leaf whose path was folded
    m_folded    \* SpecMerkle: fold_path_to_root(m_leaf, paths[m_leaf])

merkleVars == <<m_pc, m_in, m_out, m_sorted, m_leaf, m_folded>>

VARIABLES
    files,      \* SpecCli: the receipts directory, slot -> receipt file or NoFile
    rootDoc,    \* SpecCli: the root document written by seal, or NoDoc
    anchored,   \* SpecCli: the anchored receipt written by anchor, or NoFile
    cli_out     \* SpecCli: the last command and its outcome

cliVars == <<files, rootDoc, anchored, cli_out>>

VARIABLES
    c_pc,       \* SpecCanon: "edit" | "hashed"
    c_doc,      \* SpecCanon: a record as written, members in insertion order
    c_arr,      \* SpecCanon: TRUE when the record's array is in its first order
    c_bytes,    \* SpecCanon: canonical_payload_json of the record (main.rs)
    c_digest    \* SpecCanon: hash_canonical of the record's Value (receipt.rs)

canonVars == <<c_pc, c_doc, c_arr, c_bytes, c_digest>>

VARIABLES
    s_pc,       \* SpecSign: "new" | "signed" | "mutated" | "verified"
    s_rec,      \* SpecSign: the receipt (receipt.rs) being signed and verified
    s_signed,   \* SpecSign: the receipt as sign_receipt last returned it
    s_result    \* SpecSign: the outcome of the last verify_receipt

signVars == <<s_pc, s_rec, s_signed, s_result>>

VARIABLES
    peersFile,  \* SpecGateway: the peers.toml the guard is built from
    guard,      \* SpecGateway: PEER_GUARD, not initialized until first used
    ledger,     \* SpecGateway: the ledger directory, digest -> state of its file
    g_pc,       \* SpecGateway: request -> where its pipeline stands
    g_body,     \* SpecGateway: request -> the posted body
    g_expired,  \* SpecGateway: request -> its deadline passed while it ran
    g_wrote,    \* SpecGateway: request -> it has written to the ledger
    g_iofail,   \* SpecGateway: request -> a ledger operation of it failed
    g_digest,   \* SpecGateway: request -> receipt digest add_json returned
    g_resp,     \* SpecGateway: request -> the response of post_verify
    g_seen,     \* SpecGateway: request -> the digests stored in full when it began
    g_list,     \* SpecGateway: request -> the entries ledger::list() returned to it
    g_read,     \* SpecGateway: request -> the content get_json read for it
    g_start     \* SpecGateway: peers.toml as it was when the process started

gatewayVars ==
    <<peersFile, guard, ledger, g_pc, g_body, g_expired, g_wrote, g_iofail,
      g_digest, g_resp, g_seen, g_list, g_read, g_start>>

vars == <<merkleVars, cliVars, canonVars, signVars, gatewayVars>>

\* What a step of one component leaves alone: the other components.
MerkleFrame == UNCHANGED <<cliVars, canonVars, signVars, gatewayVars>>
CliFrame == UNCHANGED <<merkleVars, canonVars, signVars, gatewayVars>>
CanonFrame == UNCHANGED <<merkleVars, cliVars, signVars, gatewayVars>>
SignFrame == UNCHANGED <<merkleVars, cliVars, canonVars, gatewayVars>>
GatewayFrame == UNCHANGED <<merkleVars, cliVars, canonVars, signVars>>

\* ------------------------------------------------------------- utilities
Range(s) == {s[i] : i \in DOMAIN s}

\* The root build_merkle returns for an empty batch: "" (main.rs:181).
EmptyRoot == 0

\* blake3_hex over the concatenation of two decoded digests <<a, b>>: an
\* injective pairing (Cantor), shifted past the payload digests.
Blake3Pair(a, b) == LeafSpace + ((a + b) * (a + b + 1)) \div 2 + b

\* A parent hash that keeps the children in their structural order.
HashOrdered_Positional(a_hex, b_hex) == Blake3Pair(a_hex, b_hex)

\* hex_concat_ordered followed by blake3_hex: the smaller hex string first.
HashOrdered(a_hex, b_hex) ==
    IF a_hex <= b_hex THEN Blake3Pair(a_hex, b_hex) ELSE Blake3Pair(b_hex, a_hex)

\* paths.entry(k).or_default().push(v)
PushSibling(paths, k, v) ==
    IF k \in DOMAIN paths
    THEN [paths EXCEPT ![k] = Append(@, v)]
    ELSE paths @@ (k :> <<v>>)

\* for l in &layer { paths.entry(l.clone()).or_default(); }
InitPaths(leaves) == [l \in Range(leaves) |-> <<>>]

\* One pass of `for chunk in layer.chunks(2)`, from chunk i on: returns the
\* next layer and the updated paths.
RECURSIVE ChunkLoop(_, _, _, _)
ChunkLoop(layer, i, next_layer, paths) ==
    IF 2 * i - 1 > Len(layer) THEN [next |-> next_layer, paths |-> paths]
    ELSE
        LET left  == layer[2 * i - 1]
            right == IF 2 * i <= Len(layer) THEN layer[2 * i] ELSE layer[2 * i - 1]
            parent_hex == HashOrdered(left, right)
            p1 == PushSibling(paths, left, right)
            p2 == PushSibling(p1, right, left)
        IN  ChunkLoop(layer, i + 1, Append(next_layer, parent_hex), p2)

\* while layer.len() > 1 { ... }
RECURSIVE LayerLoop(_, _)
LayerLoop(layer, paths) ==
    IF Len(layer) <= 1 THEN [root |-> layer[1], paths |-> paths]
    ELSE
        LET r == ChunkLoop(layer, 1, <<>>, paths)
        IN  LayerLoop(r.next, r.paths)

\* A build that hashes the empty input instead of returning the sentinel.
build_merkle_HashedEmpty(leaves) ==
    IF Len(leaves) = 0 THEN [root |-> Blake3Pair(0, 0), paths |-> <<>>]
    ELSE LayerLoop(leaves, InitPaths(leaves))

\* main.rs:180-206.
build_merkle(leaves) ==
    IF Len(leaves) = 0 THEN [root |-> EmptyRoot, paths |-> <<>>]
    ELSE LayerLoop(leaves, InitPaths(leaves))

RECURSIVE fold_path_to_root(_, _)
fold_path_to_root(leaf, path) ==
    IF Len(path) = 0 THEN leaf
    ELSE fold_path_to_root(HashOrdered(leaf, Head(path)), Tail(path))

\* A sort that leaves the sequence as it is.
SortLeaves_Unsorted(s) == s

\* leaves.sort(): insertion sort of the digests, ascending.
RECURSIVE InsertSorted(_, _)
InsertSorted(s, x) ==
    IF Len(s) = 0 THEN <<x>>
    ELSE IF x <= Head(s) THEN <<x>> \o s
    ELSE <<Head(s)>> \o InsertSorted(Tail(s), x)

RECURSIVE SortLeaves(_)
SortLeaves(s) ==
    IF Len(s) = 0 THEN <<>>
    ELSE InsertSorted(SortLeaves(Tail(s)), Head(s))

\* ------------------------------------------------------------ SpecMerkle
\* Leaf batches: sequences of distinct digests, in any order.
LeafBatches ==
    UNION { { s \in [1..n -> 1..MaxLeafVal] :
                \A i, j \in 1..n : i # j => s[i] # s[j] } : n \in 0..MaxLeaves }

NoResult == [root |-> EmptyRoot, paths |-> <<>>]

\* build_merkle applied to the batch as given, and (as Seal and Anchor call
\* it, main.rs:257-258, 279-280) to the batch sorted.
MerkleBuild ==
    /\ m_pc = "input"
    /\ m_out' = build_merkle(m_in)
    /\ m_sorted' = build_merkle(SortLeaves(m_in))
    /\ m_pc' = "built"
    /\ UNCHANGED <<m_in, m_leaf, m_folded>>
    /\ MerkleFrame

\* fold_path_to_root applied to the path extracted for one leaf of the batch.
MerkleFold ==
    /\ m_pc = "built"
    /\ \E l \in Range(m_in) :
        /\ m_leaf' = l
        /\ m_folded' = fold_path_to_root(l, m_out.paths[l])
    /\ m_pc' = "folded"
    /\ UNCHANGED <<m_in, m_out, m_sorted>>
    /\ MerkleFrame

MerkleNext == MerkleBuild \/ MerkleFold

MerkleIdle ==
    /\ m_pc = "idle"
    /\ m_in = <<>>
    /\ m_out = NoResult
    /\ m_sorted = NoResult
    /\ m_leaf = 0
    /\ m_folded = 0

\* --------------------------------------------------------------- SpecCli
\* op.target: the value every receipt is emitted with (0) and the value one
\* character away from it (1); op.apply_hash: "" (0) or the digest of the
\* post-apply file (1); sign: Sign::none() (0).
Targets == {0, 1}
EmitTarget == 0
PlanHash == 1
PostHash == 1
SignNone == 0
SealDate == "2025-01-01"

NoMerkle == [date |-> "", path |-> <<>>, root |-> EmptyRoot]

NoFile ==
    [id |-> 0, target |-> 0, plan_hash |-> 0, apply_hash |-> 0, sign |-> 0,
     leaf |-> 0, merkle |-> NoMerkle]

NoDoc == [date |-> "", root |-> EmptyRoot, count |-> 0, present |-> FALSE]

\* remove_leaf_and_merkle: the serialized receipt without "leaf" and "merkle"
\* (every other field, "sign" included, stays).
remove_leaf_and_merkle(rec) ==
    [id |-> rec.id, target |-> rec.target, plan_hash |-> rec.plan_hash,
     apply_hash |-> rec.apply_hash, sign |-> rec.sign]

\* canonical_payload_json: the key-sorted compact JSON of the stripped record.
canonical_payload_json(rec) == remove_leaf_and_merkle(rec)

\* blake3_hex of a canonical payload: injective on payloads (plan_hash is the
\* same for every receipt of the model), always in 1..LeafSpace.
Blake3Payload(p) ==
    1 + p.target + 2 * p.apply_hash + 4 * p.sign + 8 * (p.id - 1)

canonical_leaf_hex(rec) == Blake3Payload(canonical_payload_json(rec))

\* The slots in S in ascending order.
RECURSIVE Ascending(_)
Ascending(S) ==
    IF S = {} THEN <<>>
    ELSE LET m == CHOOSE x \in S : \A y \in S : x <= y
         IN  <<m>> \o Ascending(S \ {m})

Reverse(s) == [k \in DOMAIN s |-> s[Len(s) + 1 - k]]

\* Orders in which fs::read_dir may enumerate the slots in S: the order is
\* unspecified; two opposite orders stand for it.
Enumerations(S) == {Ascending(S), Reverse(Ascending(S))}

Present == { i \in 1..MaxFiles : files[i] # NoFile }

\* The loop over fs::read_dir followed by leaves.sort() (main.rs:249-257 and
\* 271-279): the stored leaf of every receipt file, in enumeration order, sorted.
DirLeaves(order) == SortLeaves([k \in DOMAIN order |-> files[order[k]].leaf])

Out(cmd, result) == [cmd |-> cmd, result |-> result]

\* ReceiptCmd::Emit into a new file: a fresh id (ids are timestamps, so they
\* are issued in ascending order), apply_hash "", sign none, the leaf computed
\* from the record.
Emit(i) ==
    /\ files[i] = NoFile
    /\ \A j \in 1..(i - 1) : files[j] # NoFile
    /\ LET rec0 == [id |-> i, target |-> EmitTarget, plan_hash |-> PlanHash,
                    apply_hash |-> 0, sign |-> SignNone, leaf |-> 0,
                    merkle |-> NoMerkle]
           rec == [rec0 EXCEPT !.leaf = canonical_leaf_hex(rec0)]
       IN  /\ files' = [files EXCEPT ![i] = rec]
           /\ cli_out' = Out("emit", "EMITTED")
    /\ UNCHANGED <<rootDoc, anchored>>
    /\ CliFrame

\* ReceiptCmd::Finalize, written back to the same file.
Finalize(i) ==
    /\ files[i] # NoFile
    /\ LET rec0 == [files[i] EXCEPT !.apply_hash = PostHash]
           rec == [rec0 EXCEPT !.leaf = canonical_leaf_hex(rec0)]
       IN  /\ files' = [files EXCEPT ![i] = rec]
           /\ cli_out' = Out("finalize", "FINALIZED")
    /\ UNCHANGED <<rootDoc, anchored>>
    /\ CliFrame

\* Cmd::Seal over the directory.
Seal ==
    /\ \E order \in Enumerations(Present) :
            LET leaves == DirLeaves(order)
                built == build_merkle(leaves)
                doc == [date |-> SealDate, root |-> built.root,
                        count |-> Len(leaves), present |-> TRUE]
            IN  /\ rootDoc' = doc
                /\ cli_out' = Out("seal", "SEALED")
                /\ UNCHANGED <<files, anchored>>
    /\ CliFrame

\* Cmd::Anchor of the receipt file in slot i against the directory.
Anchor(i) ==
    /\ files[i] # NoFile
    /\ \E order \in Enumerations(Present) :
        LET rec == files[i]
            leaves == DirLeaves(order)
            built == build_merkle(leaves)
        IN  IF rec.leaf \in DOMAIN built.paths
            THEN LET out == [rec EXCEPT !.merkle =
                                [date |-> SealDate, path |-> built.paths[rec.leaf],
                                 root |-> built.root]]
                 IN  /\ anchored' = out
                     /\ cli_out' = Out("anchor", "ANCHORED")
            ELSE /\ anchored' = anchored
                 /\ cli_out' = Out("anchor", "leaf not found in set")
    /\ UNCHANGED <<files, rootDoc>>
    /\ CliFrame

\* Cmd::Verify with the path check ahead of the leaf check.
VerifyResult_PathFirst(rec, doc, strict) ==
    IF ~doc.present THEN "io error"
    ELSE IF fold_path_to_root(rec.leaf, rec.merkle.path) # doc.root
         THEN "path->root mismatch"
    ELSE IF canonical_leaf_hex(rec) # rec.leaf THEN "leaf mismatch"
    ELSE "VERIFIED"

\* The outcome of Cmd::Verify for a receipt and a root document.
VerifyResult(rec, doc, strict) ==
    IF canonical_leaf_hex(rec) # rec.leaf THEN "leaf mismatch"
    ELSE IF ~doc.present THEN "io error"
    ELSE IF fold_path_to_root(rec.leaf, rec.merkle.path) # doc.root
         THEN "path->root mismatch"
    ELSE IF strict /\ (rec.plan_hash = 0 \/ rec.apply_hash = 0)
         THEN "strict: missing plan/apply hashes"
    ELSE "VERIFIED"

\* Cmd::Verify of the anchored receipt against the root document.
Verify(strict) ==
    /\ anchored # NoFile
    /\ cli_out' = Out("verify", VerifyResult(anchored, rootDoc, strict))
    /\ UNCHANGED <<files, rootDoc, anchored>>
    /\ CliFrame

\* An edit of the anchored receipt file outside the tool: one character of
\* op.target changes, the stored leaf stays.  cli_out no longer describes
\* the files, so it is marked as overtaken by the edit.
TamperTarget ==
    /\ anchored # NoFile
    /\ \E t \in Targets \ {anchored.target} :
        anchored' = [anchored EXCEPT !.target = t]
    /\ cli_out' = Out("edit", "")
    /\ UNCHANGED <<files, rootDoc>>
    /\ CliFrame

\* The same kind of edit on another field the leaf covers: op.apply_hash.
TamperApplyHash ==
    /\ anchored # NoFile
    /\ anchored' = [anchored EXCEPT !.apply_hash = PostHash - @]
    /\ cli_out' = Out("edit", "")
    /\ UNCHANGED <<files, rootDoc>>
    /\ CliFrame

\* A signature is put into the sign block of the anchored receipt file (the
\* tool has no command for it; the file's other fields and its stored leaf
\* stay as they are).
SignFilled == 1
AttachSign ==
    /\ anchored # NoFile
    /\ anchored.sign = SignNone
    /\ anchored' = [anchored EXCEPT !.sign = SignFilled]
    /\ cli_out' = Out("edit", "")
    /\ UNCHANGED <<files, rootDoc>>
    /\ CliFrame

\* The commands, and the signing of an anchored receipt.
CliSignNext ==
    \/ \E i \in 1..MaxFiles : Emit(i)
    \/ \E i \in 1..MaxFiles : Finalize(i)
    \/ Seal
    \/ \E i \in 1..MaxFiles : Anchor(i)
    \/ \E strict \in BOOLEAN : Verify(strict)
    \/ AttachSign

\* The stored leaves of the receipt files of the directory.
DirLeafSet == {files[i].leaf : i \in Present}

\* Cmd::Anchor with --receipt naming a receipt file kept outside the
\* directory (the file an earlier anchor wrote) and --out naming it again.
AnchorCopy ==
    /\ anchored # NoFile
    /\ \E order \in Enumerations(Present) :
        LET rec == anchored
            leaves == DirLeaves(order)
            built == build_merkle(leaves)
        IN  IF rec.leaf \in DOMAIN built.paths
            THEN LET out == [rec EXCEPT !.merkle =
                                [date |-> SealDate, path |-> built.paths[rec.leaf],
                                 root |-> built.root]]
                 IN  /\ anchored' = out
                     /\ cli_out' = Out("anchor", "ANCHORED")
            ELSE /\ anchored' = anchored
                 /\ cli_out' = Out("anchor", "leaf not found in set")
    /\ UNCHANGED <<files, rootDoc>>
    /\ CliFrame

\* blake3 digests of two concatenated leaves of the directory.
PairDigests == {HashOrdered(a, b) : a \in DirLeafSet, b \in DirLeafSet}

\* An edit of the receipt file kept outside the directory: its "leaf" string
\* is replaced by another digest.
EditLeaf ==
    /\ anchored # NoFile
    /\ \E l \in PairDigests \ {anchored.leaf} :
        anchored' = [anchored EXCEPT !.leaf = l]
    /\ cli_out' = Out("edit", "")
    /\ UNCHANGED <<files, rootDoc>>
    /\ CliFrame

\* The receipt files of the directory are removed (or --dir names another,
\* empty directory from here on).
ClearDir ==
    /\ Present # {}
    /\ files' = [i \in 1..MaxFiles |-> NoFile]
    /\ cli_out' = Out("edit", "")
    /\ UNCHANGED <<rootDoc, anchored>>
    /\ CliFrame

\* Anchoring receipts of the directory and receipt files kept outside it.
AnchorNext ==
    \/ \E i \in 1..MaxFiles : Emit(i)
    \/ \E i \in 1..MaxFiles : Finalize(i)
    \/ \E i \in 1..MaxFiles : Anchor(i)
    \/ AnchorCopy
    \/ EditLeaf
    \/ ClearDir

\* An edit of a receipt file of the directory outside the tool: one
\* character of op.target changes, the stored leaf stays.
TamperFile(i) ==
    /\ files[i] # NoFile
    /\ \E t \in Targets \ {files[i].target} :
        files' = [files EXCEPT ![i].target = t]
    /\ cli_out' = Out("edit", "")
    /\ UNCHANGED <<rootDoc, anchored>>
    /\ CliFrame

\* Emitted receipt files are edited, then sealed, anchored and verified.
StaleNext ==
    \/ \E i \in 1..MaxFiles : Emit(i)
    \/ \E i \in 1..MaxFiles : TamperFile(i)
    \/ Seal
    \/ \E i \in 1..MaxFiles : Anchor(i)
    \/ \E strict \in BOOLEAN : Verify(strict)

CliNext ==
    \/ \E i \in 1..MaxFiles : Emit(i)
    \/ \E i \in 1..MaxFiles : Finalize(i)
    \/ Seal
    \/ \E i \in 1..MaxFiles : Anchor(i)
    \/ \E strict \in BOOLEAN : Verify(strict)
    \/ TamperTarget
    \/ TamperApplyHash

CliIdle ==
    /\ files = <<>>
    /\ rootDoc = NoDoc
    /\ anchored = NoFile
    /\ cli_out = Out("none", "")

\* ------------------------------------------------------------- SpecCanon
\* JSON as written (a document's text, a json! literal, a struct's fields in
\* declaration order): scalars, arrays, and objects whose members are listed
\* in insertion order.
Scalar(n) == [t |-> "scalar", n |-> n, items |-> <<>>]
Array(items) == [t |-> "array", n |-> 0, items |-> items]
Object(members) == [t |-> "object", n |-> 0, items |-> members]
Member(k, v) == [k |-> k, v |-> v]

\* A map that keeps its members in insertion order.
MapInsert_Appending(m, k, v) ==
    IF \E i \in DOMAIN m : m[i].k = k
    THEN [i \in DOMAIN m |-> IF m[i].k = k THEN Member(k, v) ELSE m[i]]
    ELSE Append(m, Member(k, v))

\* BTreeMap::insert (and serde_json's Map, a BTreeMap): the members are kept
\* ascending by key; inserting an existing key replaces its value.
RECURSIVE MapInsert(_, _, _)
MapInsert(m, k, v) ==
    IF Len(m) = 0 THEN <<Member(k, v)>>
    ELSE IF k = Head(m).k THEN <<Member(k, v)>> \o Tail(m)
    ELSE IF k < Head(m).k THEN <<Member(k, v)>> \o m
    ELSE <<Head(m)>> \o MapInsert(Tail(m), k, v)

\* sort_json: every object rebuilt through a BTreeMap, arrays mapped in
\* place, scalars untouched.  The same construction yields the Value of a
\* document (to_value, json!, from_slice), whose objects are Maps.
RECURSIVE sort_json(_)
RECURSIVE SortMembers(_, _, _)
RECURSIVE SortElements(_, _, _)
SortMembers(members, i, b) ==
    IF i > Len(members) THEN b
    ELSE SortMembers(members, i + 1,
                     MapInsert(b, members[i].k, sort_json(members[i].v)))
SortElements(elems, i, acc) ==
    IF i > Len(elems) THEN acc
    ELSE SortElements(elems, i + 1, Append(acc, sort_json(elems[i])))
sort_json(v) ==
    IF v.t = "object" THEN Object(SortMembers(v.items, 1, <<>>))
    ELSE IF v.t = "array" THEN Array(SortElements(v.items, 1, <<>>))
    ELSE v

to_value(doc) == sort_json(doc)

\* Map::remove
MapRemove(v, k) ==
    IF v.t = "object"
    THEN Object(SelectSeq(v.items, LAMBDA e : e.k # k))
    ELSE v

\* serde_json::to_string: compact text, members in the Map's iteration
\* order.  Tokens: -1 and -2 brace an object, -3 and -4 bracket an array,
\* 100 + k is the key k, a scalar is its own token.
RECURSIVE to_string(_)
RECURSIVE MembersText(_, _)
RECURSIVE ElementsText(_, _)
MembersText(members, i) ==
    IF i > Len(members) THEN <<>>
    ELSE <<100 + members[i].k>> \o to_string(members[i].v)
            \o MembersText(members, i + 1)
ElementsText(elems, i) ==
    IF i > Len(elems) THEN <<>>
    ELSE to_string(elems[i]) \o ElementsText(elems, i + 1)
to_string(v) ==
    IF v.t = "object" THEN <<-1>> \o MembersText(v.items, 1) \o <<-2>>
    ELSE IF v.t = "array" THEN <<-3>> \o ElementsText(v.items, 1) \o <<-4>>
    ELSE <<v.n>>

\* blake3 of a text: injective, so the digest is the text under a tag.
Blake3Text(bytes) == [blake3 |-> bytes]
NoDigest == [blake3 |-> <<>>]

\* Member names as numbers, ascending as the names are in code-point order.
Key(name) ==
    CASE name = "actor" -> 1           [] name = "alg" -> 2
      [] name = "digest" -> 3          [] name = "env" -> 4
      [] name = "git_commit" -> 5      [] name = "id" -> 6
      [] name = "kind" -> 7            [] name = "leaf" -> 8
      [] name = "merkle" -> 9          [] name = "provenance" -> 10
      [] name = "pub" -> 11            [] name = "sig" -> 12
      [] name = "sign" -> 13           [] name = "subject" -> 14
      [] name = "ts" -> 15

\* canonical_payload_json over a generic record: "leaf" and "merkle" removed,
\* then sort_json, then to_string.
canonical_payload_text(doc) ==
    to_string(sort_json(MapRemove(MapRemove(to_value(doc), Key("leaf")), Key("merkle"))))

\* hash_canonical: the digest of the Value's compact text, as the Map orders it.
hash_canonical(v) == Blake3Text(to_string(v))

\* The record of SpecCanon: the member keyed EnvKey is an object of two
\* members, the member keyed ArrKey an array of two elements, every other
\* member a scalar.
EnvKey == 2
ArrKey == 3
BaseMember(k) ==
    IF k = EnvKey THEN Member(k, Object(<<Member(1, Scalar(21)), Member(2, Scalar(22))>>))
    ELSE IF k = ArrKey THEN Member(k, Array(<<Scalar(31), Scalar(32)>>))
    ELSE Member(k, Scalar(10 + k))
BaseDoc == Object([k \in 1..MaxKeys |-> BaseMember(k)])

SwapAt(s, i) ==
    [j \in DOMAIN s |-> IF j = i THEN s[i + 1] ELSE IF j = i + 1 THEN s[i] ELSE s[j]]

SwapItems(v) == [v EXCEPT !.items = SwapAt(@, 1)]

\* doc with the first two items of its member keyed k exchanged.
WithMember(doc, k) ==
    Object([j \in DOMAIN doc.items |->
              IF doc.items[j].k = k THEN Member(k, SwapItems(doc.items[j].v))
              ELSE doc.items[j]])

\* The same record written with two adjacent top-level members exchanged.
SwapTopKeys(i) ==
    /\ i < Len(c_doc.items)
    /\ c_doc' = [c_doc EXCEPT !.items = SwapAt(@, i)]
    /\ c_pc' = "edit"
    /\ UNCHANGED <<c_arr, c_bytes, c_digest>>
    /\ CanonFrame

\* The same record written with the members of its nested object exchanged.
SwapNestedKeys ==
    /\ c_doc' = WithMember(c_doc, EnvKey)
    /\ c_pc' = "edit"
    /\ UNCHANGED <<c_arr, c_bytes, c_digest>>
    /\ CanonFrame

\* Another record: the two elements of the array exchanged.
SwapArrayElements ==
    /\ c_doc' = WithMember(c_doc, ArrKey)
    /\ c_arr' = ~c_arr
    /\ c_pc' = "edit"
    /\ UNCHANGED <<c_bytes, c_digest>>
    /\ CanonFrame

\* canonical_payload_json (main.rs) and hash_canonical over the record's
\* Value (receipt.rs, as tests/schema_guard.rs calls it).
Canonicalize ==
    /\ c_pc = "edit"
    /\ c_bytes' = canonical_payload_text(c_doc)
    /\ c_digest' = hash_canonical(to_value(c_doc))
    /\ c_pc' = "hashed"
    /\ UNCHANGED <<c_doc, c_arr>>
    /\ CanonFrame

CanonNext ==
    \/ \E i \in 1..MaxKeys : SwapTopKeys(i)
    \/ SwapNestedKeys
    \/ SwapArrayElements
    \/ Canonicalize

CanonIdle ==
    /\ c_pc = "idle"
    /\ c_doc = <<>>
    /\ c_arr = TRUE
    /\ c_bytes = <<>>
    /\ c_digest = NoDigest

\* -------------------------------------------------------------- SpecSign
\* base64 text: well-formed text decodes to the bytes it encodes.
B64Encode(bytes) == [b64 |-> TRUE, bytes |-> bytes]
B64Garbage == [b64 |-> FALSE, bytes |-> [len |-> 0, key |-> 0, msg |-> NoDigest]]

\* Keypair kp: kp.public.as_bytes() (32 bytes) and kp.sign(msg).to_bytes()
\* (64 bytes).  A signature is valid for exactly the key and message it was
\* made with.
PublicBytes(kp) == [len |-> 32, key |-> kp, msg |-> NoDigest]
SignBytes(kp, msg) == [len |-> 64, key |-> kp, msg |-> msg]
Ed25519Verify(pk, msg, sig) == sig.key = pk.key /\ sig.msg = msg

AlgEd25519 == 1
NoSign == [present |-> FALSE, pub |-> B64Garbage, sig |-> B64Garbage, alg |-> 0]

\* The JSON text of a sign block's members.
SignValue(sign) ==
    IF ~sign.present THEN Scalar(0)
    ELSE Object(<<Member(Key("pub"),
                         Scalar(IF sign.pub.b64 THEN sign.pub.bytes.len + sign.pub.bytes.key
                                ELSE 1)),
                  Member(Key("sig"),
                         Scalar(IF sign.sig.b64 THEN sign.sig.bytes.len + sign.sig.bytes.key
                                ELSE 1)),
                  Member(Key("alg"), Scalar(sign.alg))>>)

\* serde_json::to_value(&r) for receipt::Receipt: the fields in declaration
\* order, provenance skipped when None.
ReceiptValue(r) ==
    to_value(Object(
        <<Member(Key("actor"), Object(<<Member(Key("id"), Scalar(r.actor))>>)),
          Member(Key("env"), Object(<<Member(Key("git_commit"), Scalar(r.env))>>)),
          Member(Key("ts"), Scalar(r.ts)),
          Member(Key("subject"),
                 Object(<<Member(Key("kind"), Scalar(0)),
                          Member(Key("digest"), Scalar(r.subject))>>)),
          Member(Key("sign"), SignValue(r.sign))>>
        \o (IF r.provenance = 0 THEN <<>>
            ELSE <<Member(Key("provenance"), Scalar(r.provenance))>>)))

\* A strip that leaves the sign member in place.
StripSign_Kept(v) == v

\* if let Value::Object(ref mut m) = v { m.remove("sign"); }
StripSign(v) == MapRemove(v, Key("sign"))

\* The digest both sign_receipt and verify_receipt compute: hash_canonical of
\* the receipt's Value without "sign"; its hex text is the signed message.
SignedDigest(r) == hash_canonical(StripSign(ReceiptValue(r)))

sign_receipt(r, kp) ==
    [r EXCEPT !.sign =
        [present |-> TRUE,
         pub |-> B64Encode(PublicBytes(kp)),
         sig |-> B64Encode(SignBytes(kp, SignedDigest(r))),
         alg |-> AlgEd25519]]

\* verify_receipt without the final pk.verify.
verify_receipt_Unchecked(r) ==
    IF ~r.sign.present THEN "missing sign"
    ELSE IF ~r.sign.pub.b64 THEN "bad public b64"
    ELSE IF ~r.sign.sig.b64 THEN "bad signature b64"
    ELSE IF r.sign.pub.bytes.len # 32 THEN "bad public"
    ELSE IF r.sign.sig.bytes.len # 64 THEN "bad signature"
    ELSE "ok"

verify_receipt(r) ==
    IF ~r.sign.present THEN "missing sign"
    ELSE IF ~r.sign.pub.b64 THEN "bad public b64"
    ELSE IF ~r.sign.sig.b64 THEN "bad signature b64"
    ELSE IF r.sign.pub.bytes.len # 32 THEN "bad public"
    ELSE IF r.sign.sig.bytes.len # 64 THEN "bad signature"
    ELSE IF ~Ed25519Verify(r.sign.pub.bytes, SignedDigest(r), r.sign.sig.bytes)
         THEN "signature verify failed"
    ELSE "ok"

\* Receipts handed to sign_receipt: unsigned, or carrying an earlier sign
\* block (here one made for a different receipt).
BaseReceipt(a) ==
    [actor |-> a, env |-> 0, ts |-> 0, subject |-> 0, provenance |-> 0, sign |-> NoSign]
NoReceipt == BaseReceipt(0)

SignReceipt(kp) ==
    /\ s_pc # "verified"
    /\ s_rec' = sign_receipt(s_rec, kp)
    /\ s_signed' = s_rec'
    /\ s_pc' = "signed"
    /\ UNCHANGED s_result
    /\ SignFrame

VerifyReceipt ==
    /\ s_pc \in {"signed", "mutated"}
    /\ s_result' = verify_receipt(s_rec)
    /\ s_pc' = "verified"
    /\ UNCHANGED <<s_rec, s_signed>>
    /\ SignFrame

\* After signing, one field of the receipt is changed.
MutateField(f) ==
    /\ s_pc = "signed"
    /\ s_rec' = CASE f = "actor" -> [s_rec EXCEPT !.actor = (@ % NumKeys) + 1]
                  [] f = "env" -> [s_rec EXCEPT !.env = 1 - @]
                  [] f = "ts" -> [s_rec EXCEPT !.ts = 1 - @]
                  [] f = "subject" -> [s_rec EXCEPT !.subject = 1 - @]
                  [] f = "provenance" -> [s_rec EXCEPT !.provenance = 1 - @]
                  [] f = "sign.alg" -> [s_rec EXCEPT !.sign.alg = AlgEd25519 - @]
    /\ s_pc' = "mutated"
    /\ UNCHANGED <<s_signed, s_result>>
    /\ SignFrame

\* After signing, the sign block's public key is replaced: by another key,
\* by bytes of the wrong length, or by text that is not base64.
MutatePub ==
    /\ s_pc = "signed"
    /\ \E p \in {B64Encode(PublicBytes(k)) : k \in 1..NumKeys}
                \cup {B64Encode([len |-> 31, key |-> 1, msg |-> NoDigest]), B64Garbage} :
        /\ p # s_rec.sign.pub
        /\ s_rec' = [s_rec EXCEPT !.sign.pub = p]
    /\ s_pc' = "mutated"
    /\ UNCHANGED <<s_signed, s_result>>
    /\ SignFrame

\* After signing, the signature is replaced: by the signature of another key
\* over the same digest, by bytes of the wrong length, or by text that is not
\* base64.
MutateSig ==
    /\ s_pc = "signed"
    /\ \E g \in {B64Encode(SignBytes(k, s_rec.sign.sig.bytes.msg)) : k \in 1..NumKeys}
                \cup {B64Encode([len |-> 63, key |-> 1, msg |-> NoDigest]), B64Garbage} :
        /\ g # s_rec.sign.sig
        /\ s_rec' = [s_rec EXCEPT !.sign.sig = g]
    /\ s_pc' = "mutated"
    /\ UNCHANGED <<s_signed, s_result>>
    /\ SignFrame

\* After signing, the sign block is dropped.
DropSign ==
    /\ s_pc = "signed"
    /\ s_rec.sign.present
    /\ s_rec' = [s_rec EXCEPT !.sign = NoSign]
    /\ s_pc' = "mutated"
    /\ UNCHANGED <<s_signed, s_result>>
    /\ SignFrame

MutableFields == {"actor", "env", "ts", "subject", "provenance", "sign.alg"}

SignNext ==
    \/ \E kp \in 1..NumKeys : SignReceipt(kp)
    \/ VerifyReceipt
    \/ \E f \in MutableFields : MutateField(f)
    \/ MutatePub
    \/ MutateSig
    \/ DropSign

SignIdle ==
    /\ s_pc = "idle"
    /\ s_rec = NoReceipt
    /\ s_signed = NoReceipt
    /\ s_result = ""

\* ----------------------------------------------------------- SpecGateway
\* JSON documents posted to the gateway and stored in the ledger.  schema is
\* the schema the document satisfies ("receipt", "provenance" or "none"; no
\* document satisfies both, ts being a string in one and an object in the
\* other); typed tells whether a receipt document deserializes into
\* receipt::Receipt, rcpt is the typed receipt, extra an unknown top-level
\* member.
ReceiptDoc(rcpt, typed, extra) ==
    [schema |-> "receipt", typed |-> typed, rcpt |-> rcpt, extra |-> extra]
ProvenanceDoc == [schema |-> "provenance", typed |-> FALSE, rcpt |-> NoReceipt, extra |-> 0]
JunkDoc == [schema |-> "none", typed |-> FALSE, rcpt |-> NoReceipt, extra |-> 0]

\* Actor a's receipt, signed with a's key.
SignedBy(a) == sign_receipt(BaseReceipt(a), a)
\* A signed receipt changed after signing.
Forged(a) == [SignedBy(a) EXCEPT !.ts = 1]

\* The documents of the model; a document's digest (blake3_hex of its bytes,
\* injective) is its position here.
DocCatalogue ==
    <<ReceiptDoc(SignedBy(1), TRUE, 0),
      ReceiptDoc(SignedBy(2), TRUE, 0),
      ProvenanceDoc,
      ReceiptDoc(Forged(1), TRUE, 0),
      ReceiptDoc(BaseReceipt(1), TRUE, 0),
      ReceiptDoc(BaseReceipt(1), FALSE, 0),
      JunkDoc,
      ReceiptDoc(SignedBy(1), TRUE, 1)>>

\* The digest of a document re-serialized from what the typed structs keep
\* of it: an unknown top-level member is dropped first.
blake3_hex_TypedOnly(doc) ==
    CHOOSE i \in DOMAIN DocCatalogue : DocCatalogue[i] = [doc EXCEPT !.extra = 0]

\* receipt::blake3_hex of the bytes serde_json::to_vec made of the posted
\* Value (gateway.rs:68-74, ledger.rs:26-36).
blake3_hex(doc) == CHOOSE i \in DOMAIN DocCatalogue : DocCatalogue[i] = doc

Body(hasR, r, hasP, p) == [has_receipt |-> hasR, receipt |-> r, has_provenance |-> hasP, provenance |-> p]

\* The bodies posted: every receipt document with a valid provenance, a
\* valid receipt with an invalid provenance, and bodies with a member missing.
Bodies ==
    { Body(TRUE, DocCatalogue[i], TRUE, ProvenanceDoc) :
        i \in {j \in DOMAIN DocCatalogue : DocCatalogue[j].schema # "provenance"} }
    \cup { Body(TRUE, DocCatalogue[1], TRUE, JunkDoc),
           Body(FALSE, JunkDoc, TRUE, ProvenanceDoc),
           Body(TRUE, DocCatalogue[1], FALSE, JunkDoc) }

validate_receipt(v) == v.schema = "receipt"
validate_provenance(v) == v.schema = "provenance"

\* peers.toml: absent or unreadable (fs::read_to_string fails), unparsable
\* (malformed TOML; an allow_ids of the wrong shape, the ids it names being
\* kept here), or a parsed allow_ids list.
PeersFiles ==
    { [exists |-> FALSE, parses |-> FALSE, allow_ids |-> {}],
      [exists |-> TRUE, parses |-> FALSE, allow_ids |-> {}],
      [exists |-> TRUE, parses |-> FALSE, allow_ids |-> {1}],
      [exists |-> TRUE, parses |-> TRUE, allow_ids |-> {}],
      [exists |-> TRUE, parses |-> TRUE, allow_ids |-> {1}] }

\* A guard that allows nobody when peers.toml cannot be read or parsed.
PeerGuardNew_FailClosed(file) ==
    IF file.exists /\ file.parses /\ file.allow_ids # {}
    THEN [init |-> TRUE, open |-> FALSE, allow |-> file.allow_ids]
    ELSE [init |-> TRUE, open |-> file.exists /\ file.parses, allow |-> {}]

\* PeerPolicy::load_from and PeerGuard::new: allow = None (open) unless the
\* file is read, parses, and lists at least one id.
PeerGuardNew(file) ==
    IF file.exists /\ file.parses /\ file.allow_ids # {}
    THEN [init |-> TRUE, open |-> FALSE, allow |-> file.allow_ids]
    ELSE [init |-> TRUE, open |-> TRUE, allow |-> {}]

GuardUninit == [init |-> FALSE, open |-> FALSE, allow |-> {}]

\* A guard that passes listed ids only.
allowed_ListedOnly(gd, actor_id) == actor_id \in gd.allow

\* PeerGuard::allowed
allowed(gd, actor_id) == gd.open \/ actor_id \in gd.allow

\* PEER_GUARD as the first dereference leaves it (LazyLock).
GuardForced == IF guard.init THEN guard ELSE PeerGuardNew(peersFile)

\* verify_bundle without the policy gate.
ValidateBundle_NoPolicy(body, gd) ==
    IF ~body.has_receipt THEN "bad_request"
    ELSE IF ~body.has_provenance THEN "bad_request"
    ELSE IF ~validate_receipt(body.receipt) THEN "bad_request"
    ELSE IF ~validate_provenance(body.provenance) THEN "bad_request"
    ELSE IF ~body.receipt.typed THEN "bad_request"
    ELSE IF verify_receipt(body.receipt.rcpt) # "ok" THEN "unprocessable"
    ELSE "pass"

\* verify_bundle with the signature checked ahead of the policy gate.
ValidateBundle_SignatureFirst(body, gd) ==
    IF ~body.has_receipt THEN "bad_request"
    ELSE IF ~body.has_provenance THEN "bad_request"
    ELSE IF ~validate_receipt(body.receipt) THEN "bad_request"
    ELSE IF ~validate_provenance(body.provenance) THEN "bad_request"
    ELSE IF ~body.receipt.typed THEN "bad_request"
    ELSE IF verify_receipt(body.receipt.rcpt) # "ok" THEN "unprocessable"
    ELSE IF ~allowed(gd, body.receipt.rcpt.actor) THEN "forbidden"
    ELSE "pass"

\* verify_bundle, gateway.rs:43-64: the checks made before any ledger call.
ValidateBundle(body, gd) ==
    IF ~body.has_receipt THEN "bad_request"
    ELSE IF ~body.has_provenance THEN "bad_request"
    ELSE IF ~validate_receipt(body.receipt) THEN "bad_request"
    ELSE IF ~validate_provenance(body.provenance) THEN "bad_request"
    ELSE IF ~body.receipt.typed THEN "bad_request"
    ELSE IF ~allowed(gd, body.receipt.rcpt.actor) THEN "forbidden"
    ELSE IF verify_receipt(body.receipt.rcpt) # "ok" THEN "unprocessable"
    ELSE "pass"

\* Whether verify_bundle reaches PEER_GUARD for this body.
ReachesGuard(body) ==
    /\ body.has_receipt /\ body.has_provenance
    /\ validate_receipt(body.receipt) /\ validate_provenance(body.provenance)
    /\ body.receipt.typed

\* A classification by what was stored under the digest, whatever bytes the
\* file holds when it is read.
classify_IgnoringBytes(d) ==
    IF validate_receipt(DocCatalogue[d]) THEN "receipt"
    ELSE IF validate_provenance(DocCatalogue[d]) THEN "provenance"
    ELSE "unknown"

\* ledger::classify of a stored file: empty or unparsable bytes are unknown.
classify(d) ==
    IF ledger[d] # "full" THEN "unknown"
    ELSE IF validate_receipt(DocCatalogue[d]) THEN "receipt"
    ELSE IF validate_provenance(DocCatalogue[d]) THEN "provenance"
    ELSE "unknown"

\* sync::merkle_root: blake3 over the digests' hex texts in sequence.
merkle_root(digests) == [blake3 |-> digests]
NoRoot == [blake3 |-> <<0>>]

Reqs == 1..NumReqs

\* The ledger directory outlives the process: at start it is empty, or holds
\* a receipt stored by an earlier run and a JSON file of neither schema.
InitialLedgers ==
    { [d \in DOMAIN DocCatalogue |-> "absent"],
      [d \in DOMAIN DocCatalogue |-> IF d \in {1, 7} THEN "full" ELSE "absent"] }

\* The digests whose file holds all of its bytes.
Stored == {d \in DOMAIN ledger : ledger[d] = "full"}
Running == {"validate", "add_receipt", "write_receipt", "add_provenance",
            "write_provenance", "list"}

\* The stages of a request inside the concurrency limit: those of POST verify
\* and the one of GET ledger/:digest.
InFlight == Running \cup {"get"}

\* What get_json read: the digest asked for and the state of its file.
Read(d, content) == [digest |-> d, content |-> content]
NoRead == Read(0, "none")

\* The digests asked for with GET ledger/:digest.
GetDigests == {1, 2}

Resp(status, digest, root) ==
    [status |-> status, receipt_digest |-> digest, merkle_root |-> root]
NoResp == Resp("", 0, NoRoot)
NoBody == Body(FALSE, JunkDoc, FALSE, JunkDoc)

\* tower's ConcurrencyLimitLayer::new(64)
ConcurrencyLimit == 64

\* post_verify ends with the outcome of verify_bundle: the future given to
\* tokio::time::timeout has no await point, so it is ready at its first poll
\* and the timer is never consulted.
Finish(r, resp) ==
    /\ g_resp' = [g_resp EXCEPT ![r] = resp]
    /\ g_pc' = [g_pc EXCEPT ![r] = "done"]

\* A request is admitted and post_verify starts: the deadline is armed.
\* Requests are numbered in the order they arrive.
Arrive(r, body) ==
    /\ g_pc[r] = "idle"
    /\ \A q \in 1..(r - 1) : g_pc[q] # "idle"
    /\ Cardinality({q \in Reqs : g_pc[q] \in InFlight}) < ConcurrencyLimit
    /\ g_body' = [g_body EXCEPT ![r] = body]
    /\ g_pc' = [g_pc EXCEPT ![r] = "validate"]
    /\ g_seen' = [g_seen EXCEPT ![r] = Stored]
    /\ UNCHANGED <<peersFile, guard, ledger, g_expired, g_wrote, g_iofail, g_digest, g_resp>>
    /\ UNCHANGED <<g_list, g_read, g_start>>
    /\ GatewayFrame

\* The deadline of a request passes while its pipeline is still running.
DeadlineExpires(r) ==
    /\ g_pc[r] \in Running
    /\ ~g_expired[r]
    /\ g_expired' = [g_expired EXCEPT ![r] = TRUE]
    /\ UNCHANGED <<peersFile, guard, ledger, g_pc, g_body, g_wrote, g_iofail, g_digest, g_resp>>
    /\ UNCHANGED <<g_seen, g_list, g_read, g_start>>
    /\ GatewayFrame

\* gateway.rs:43-64: member, schema, parse, policy and signature checks.
Validate(r) ==
    /\ g_pc[r] = "validate"
    /\ guard' = IF ReachesGuard(g_body[r]) THEN GuardForced ELSE guard
    /\ LET v == ValidateBundle(g_body[r], GuardForced)
       IN  IF v = "pass"
           THEN /\ g_pc' = [g_pc EXCEPT ![r] = "add_receipt"]
                /\ g_resp' = g_resp
           ELSE Finish(r, Resp(v, 0, NoRoot))
    /\ UNCHANGED <<peersFile, ledger, g_body, g_expired, g_wrote, g_iofail, g_digest>>
    /\ UNCHANGED <<g_seen, g_list, g_read, g_start>>
    /\ GatewayFrame

\* A ledger call of request r fails (create_dir_all, the open or the write
\* of std::fs::write, read_dir or a read): internal error.
StorageFails(r) ==
    /\ g_pc[r] \in Running \ {"validate"}
    /\ g_iofail' = [g_iofail EXCEPT ![r] = TRUE]
    /\ Finish(r, Resp("internal_error", 0, NoRoot))
    /\ UNCHANGED <<peersFile, guard, ledger, g_body, g_expired, g_wrote, g_digest>>
    /\ UNCHANGED <<g_seen, g_list, g_read, g_start>>
    /\ GatewayFrame

\* An add that refuses to overwrite: an existing file is an error.
AddOpen_CreateNew(r, from, to, doc) ==
    /\ g_pc[r] = from
    /\ IF ledger[blake3_hex(doc)] # "absent"
       THEN /\ Finish(r, Resp("internal_error", 0, NoRoot))
            /\ UNCHANGED <<ledger, g_wrote>>
       ELSE /\ ledger' = [ledger EXCEPT ![blake3_hex(doc)] = "empty"]
            /\ g_wrote' = [g_wrote EXCEPT ![r] = TRUE]
            /\ g_pc' = [g_pc EXCEPT ![r] = to]
            /\ UNCHANGED g_resp
    /\ UNCHANGED <<peersFile, guard, g_body, g_expired, g_iofail, g_digest>>
    /\ UNCHANGED <<g_seen, g_list, g_read, g_start>>
    /\ GatewayFrame

\* add_json, first half of std::fs::write: the file named by the digest is
\* created, or truncated if it exists.
AddOpen(r, from, to, doc) ==
    /\ g_pc[r] = from
    /\ ledger' = [ledger EXCEPT ![blake3_hex(doc)] = "empty"]
    /\ g_wrote' = [g_wrote EXCEPT ![r] = TRUE]
    /\ g_pc' = [g_pc EXCEPT ![r] = to]
    /\ UNCHANGED <<peersFile, guard, g_body, g_expired, g_iofail, g_digest, g_resp>>
    /\ UNCHANGED <<g_seen, g_list, g_read, g_start>>
    /\ GatewayFrame

\* add_json, second half of std::fs::write: the bytes are written.
AddWrite(r, from, to, doc, isReceipt) ==
    /\ g_pc[r] = from
    /\ ledger' = [ledger EXCEPT ![blake3_hex(doc)] = "full"]
    /\ g_digest' = [g_digest EXCEPT ![r] = IF isReceipt THEN blake3_hex(doc) ELSE @]
    /\ g_pc' = [g_pc EXCEPT ![r] = to]
    /\ UNCHANGED <<peersFile, guard, g_body, g_expired, g_wrote, g_iofail, g_resp>>
    /\ UNCHANGED <<g_seen, g_list, g_read, g_start>>
    /\ GatewayFrame

AddReceiptOpen(r) == AddOpen(r, "add_receipt", "write_receipt", g_body[r].receipt)
AddReceiptWrite(r) ==
    AddWrite(r, "write_receipt", "add_provenance", g_body[r].receipt, TRUE)
AddProvenanceOpen(r) ==
    AddOpen(r, "add_provenance", "write_provenance", g_body[r].provenance)
AddProvenanceWrite(r) ==
    AddWrite(r, "write_provenance", "list", g_body[r].provenance, FALSE)

\* A GET ledger/:digest request is admitted and get_receipt starts.
ArriveGet(r, d) ==
    /\ g_pc[r] = "idle"
    /\ \A q \in 1..(r - 1) : g_pc[q] # "idle"
    /\ Cardinality({q \in Reqs : g_pc[q] \in InFlight}) < ConcurrencyLimit
    /\ g_pc' = [g_pc EXCEPT ![r] = "get"]
    /\ g_read' = [g_read EXCEPT ![r] = Read(d, "none")]
    /\ g_seen' = [g_seen EXCEPT ![r] = Stored]
    /\ UNCHANGED <<peersFile, guard, ledger, g_body, g_expired, g_wrote, g_iofail, g_digest, g_resp>>
    /\ UNCHANGED <<g_list, g_start>>
    /\ GatewayFrame

\* gateway.rs:26-29 and ledger::get_json: std::fs::read of the file named by
\* the digest; a missing file is answered not-found, any other file with the
\* bytes it holds at that moment.
GetRead(r) ==
    /\ g_pc[r] = "get"
    /\ LET d == g_read[r].digest
       IN  /\ g_read' = [g_read EXCEPT ![r] = Read(d, ledger[d])]
           /\ Finish(r, Resp(IF ledger[d] = "absent" THEN "not_found" ELSE "ok", 0, NoRoot))
    /\ UNCHANGED <<peersFile, guard, ledger, g_body, g_expired, g_wrote, g_iofail, g_digest>>
    /\ UNCHANGED <<g_seen, g_list, g_start>>
    /\ GatewayFrame

\* The files of the ledger directory.
Listed == {d \in DOMAIN ledger : ledger[d] # "absent"}

\* ledger::list(): one entry per file, in the order read_dir gives the files,
\* each classified from the bytes read from it.
list(order) == [k \in DOMAIN order |-> [kind |-> classify(order[k]), digest |-> order[k]]]

\* The receipt-kind digests left in the order read_dir listed them.
ReceiptDigests_Unsorted(order) ==
    SelectSeq(order, LAMBDA d : classify(d) = "receipt")

\* gateway.rs:78-84: the receipt-kind digests in the order read_dir listed
\* them, then sorted.
ReceiptDigests(order) ==
    SortLeaves(SelectSeq(order, LAMBDA d : classify(d) = "receipt"))

\* gateway.rs:78-91: list, filter, sort, merkle_root, and the verified response.
ListAndRespond(r) ==
    /\ g_pc[r] = "list"
    /\ \E order \in Enumerations(Listed) :
        /\ g_list' = [g_list EXCEPT ![r] = list(order)]
        /\ Finish(r, Resp("verified", g_digest[r], merkle_root(ReceiptDigests(order))))
    /\ UNCHANGED <<peersFile, guard, ledger, g_body, g_expired, g_wrote, g_iofail, g_digest>>
    /\ UNCHANGED <<g_seen, g_read, g_start>>
    /\ GatewayFrame

\* Receipts of actor a by the state of their sign block: valid, invalid (the
\* receipt changed after signing), malformed (a public key that is not
\* base64, a signature of 63 bytes), missing.
SignVariants(a) ==
    { SignedBy(a),
      Forged(a),
      [SignedBy(a) EXCEPT !.sign.pub = B64Garbage],
      [SignedBy(a) EXCEPT !.sign.sig = B64Encode([len |-> 63, key |-> a, msg |-> NoDigest])],
      BaseReceipt(a) }

\* Bundles of every actor and every state of the sign block, and bundles
\* whose sign member has a shape receipt::Sign does not deserialize from.
GateBodies ==
    { Body(TRUE, ReceiptDoc(rc, typed, 0), TRUE, ProvenanceDoc) :
        rc \in UNION {SignVariants(a) : a \in 1..NumKeys}, typed \in BOOLEAN }

\* The checks of verify_bundle alone, on bundles of every sign block.
GateNext ==
    \/ \E r \in Reqs, body \in GateBodies : Arrive(r, body)
    \/ \E r \in Reqs : Validate(r)

\* peers.toml is created, removed or rewritten while the process runs.
ConfigChanges ==
    /\ \E f \in PeersFiles \ {peersFile} : peersFile' = f
    /\ UNCHANGED <<guard, ledger, g_pc, g_body, g_expired, g_wrote, g_iofail, g_digest, g_resp>>
    /\ UNCHANGED <<g_seen, g_list, g_read, g_start>>
    /\ GatewayFrame

\* The policy gate alone: requests arrive and are validated while peers.toml
\* changes.
PolicyNext ==
    \/ \E r \in Reqs, body \in Bodies : Arrive(r, body)
    \/ \E r \in Reqs : Validate(r)
    \/ ConfigChanges

GatewayNext ==
    \/ \E r \in Reqs, body \in Bodies : Arrive(r, body)
    \/ \E r \in Reqs : DeadlineExpires(r)
    \/ \E r \in Reqs : Validate(r)
    \/ \E r \in Reqs : StorageFails(r)
    \/ \E r \in Reqs : AddReceiptOpen(r)
    \/ \E r \in Reqs : AddReceiptWrite(r)
    \/ \E r \in Reqs : AddProvenanceOpen(r)
    \/ \E r \in Reqs : AddProvenanceWrite(r)
    \/ \E r \in Reqs : ListAndRespond(r)
    \/ \E r \in Reqs, d \in GetDigests : ArriveGet(r, d)
    \/ \E r \in Reqs : GetRead(r)

GatewayIdle ==
    /\ peersFile = [exists |-> FALSE, parses |-> FALSE, allow_ids |-> {}]
    /\ guard = GuardUninit
    /\ ledger = <<>>
    /\ g_pc = <<>>
    /\ g_body = <<>>
    /\ g_expired = <<>>
    /\ g_wrote = <<>>
    /\ g_iofail = <<>>
    /\ g_digest = <<>>
    /\ g_resp = <<>>
    /\ g_seen = <<>>
    /\ g_list = <<>>
    /\ g_read = <<>>
    /\ g_start = peersFile

\* -------------------------------------------------------- specifications
\* Each specification runs one component; the others stay idle.
MerkleInit ==
    /\ m_pc = "input"
    /\ m_in \in LeafBatches
    /\ m_out = NoResult
    /\ m_sorted = NoResult
    /\ m_leaf = 0
    /\ m_folded = 0
    /\ CliIdle /\ CanonIdle /\ SignIdle /\ GatewayIdle

CliInit ==
    /\ files = [i \in 1..MaxFiles |-> NoFile]
    /\ rootDoc = NoDoc
    /\ anchored = NoFile
    /\ cli_out = Out("none", "")
    /\ MerkleIdle /\ CanonIdle /\ SignIdle /\ GatewayIdle

CanonInit ==
    /\ c_pc = "edit"
    /\ c_doc = BaseDoc
    /\ c_arr = TRUE
    /\ c_bytes = <<>>
    /\ c_digest = NoDigest
    /\ MerkleIdle /\ CliIdle /\ SignIdle /\ GatewayIdle

SignInit ==
    /\ s_pc = "new"
    /\ \E a \in 1..NumKeys, kp \in 1..NumKeys, presigned \in BOOLEAN :
        s_rec = IF presigned
                THEN [sign_receipt(BaseReceipt(a), kp) EXCEPT !.ts = 1]
                ELSE BaseReceipt(a)
    /\ s_signed = NoReceipt
    /\ s_result = ""
    /\ MerkleIdle /\ CliIdle /\ CanonIdle /\ GatewayIdle

GatewayInit ==
    /\ peersFile \in PeersFiles
    /\ guard = GuardUninit
    /\ ledger \in InitialLedgers
    /\ g_pc = [r \in Reqs |-> "idle"]
    /\ g_body = [r \in Reqs |-> NoBody]
    /\ g_expired = [r \in Reqs |-> FALSE]
    /\ g_wrote = [r \in Reqs |-> FALSE]
    /\ g_iofail = [r \in Reqs |-> FALSE]
    /\ g_digest = [r \in Reqs |-> 0]
    /\ g_resp = [r \in Reqs |-> NoResp]
    /\ g_seen = [r \in Reqs |-> {}]
    /\ g_list = [r \in Reqs |-> <<>>]
    /\ g_read = [r \in Reqs |-> NoRead]
    /\ g_start = peersFile
    /\ MerkleIdle /\ CliIdle /\ CanonIdle /\ SignIdle

SpecMerkle == MerkleInit /\ [][MerkleNext]_vars

SpecCli == CliInit /\ [][CliNext]_vars

SpecCliSign == CliInit /\ [][CliSignNext]_vars
SpecAnchor == CliInit /\ [][AnchorNext]_vars
SpecStale == CliInit /\ [][StaleNext]_vars

SpecPolicy == GatewayInit /\ [][PolicyNext]_vars
SpecGate == GatewayInit /\ [][GateNext]_vars

SpecCanon == CanonInit /\ [][CanonNext]_vars

SpecSign == SignInit /\ [][SignNext]_vars

SpecGateway == GatewayInit /\ [][GatewayNext]_vars

\* ======================================================== claims C1 - C10

\* The strictly ascending sequence of the digests in S.
SortedSeqOf(S) ==
    CHOOSE s \in [1..Cardinality(S) -> S] :
        \A i, j \in DOMAIN s : i < j => s[i] < s[j]

\* C1: for every leaf of every batch, folding the path build_merkle extracted
\* for the leaf gives the root build_merkle returned for the batch.
C1_PathFoldReproducesRoot ==
    m_pc = "folded" => m_folded = m_out.root

\* C2: after emit, finalize, seal of a directory of three receipts (root R),
\* and anchor of the finalized receipt against the same directory, verify of
\* the anchored, unedited receipt against {root: R} answers VERIFIED.
C2_EndToEndVerifies ==
    ( /\ cli_out.cmd = "verify"
      /\ rootDoc.present
      /\ rootDoc.count = 3
      /\ anchored.apply_hash = PostHash
      /\ anchored.merkle.root = rootDoc.root
      /\ canonical_leaf_hex(anchored) = anchored.leaf )
    => cli_out.result = "VERIFIED"

\* C3 as stated: build_merkle over any permutation of a set of leaf digests
\* returns the root build_merkle returns over the sorted sequence.
C3_BuildMerkleOrderIndependent ==
    m_pc # "input" => m_out.root = m_sorted.root

\* C3 as amended: the root Seal and Anchor compute (leaves sorted, then
\* build_merkle) is the same for every input order of a set of digests: it is
\* build_merkle of the ascending sequence of the set; build_merkle without the
\* sort is order-independent for batches of at most two leaves.
C3_SealedRootOrderIndependent ==
    m_pc # "input" =>
        /\ m_sorted.root = build_merkle(SortedSeqOf(Range(m_in))).root
        /\ Len(m_in) <= 2 => m_out.root = m_sorted.root

\* C3 witness: a batch of three leaves given out of order has been built.
C3_Witness ==
    /\ m_pc = "built"
    /\ Len(m_in) = 3
    /\ m_in[1] > m_in[2]
    /\ m_sorted.root # EmptyRoot

\* C4: every order of writing a record's keys, at top level and in a nested
\* object, gives the canonical bytes (main.rs) and the digest (receipt.rs) of
\* the record written with its keys ascending; exchanging two array elements
\* gives other bytes and another digest.
C4_KeyOrderIndependent ==
    c_pc = "hashed" =>
        LET same == to_string(BaseDoc)
            other == to_string(WithMember(BaseDoc, ArrKey))
        IN  /\ c_arr => c_bytes = same /\ c_digest = Blake3Text(same)
            /\ ~c_arr => c_bytes = other /\ c_digest = Blake3Text(other)
            /\ same # other

\* C4 witness: a record written with its top-level keys and its nested keys
\* out of order, its array in the first order, has been canonicalized.
C4_Witness ==
    /\ c_pc = "hashed"
    /\ c_arr
    /\ c_doc.items[1].k > c_doc.items[2].k
    /\ \E j \in DOMAIN c_doc.items :
        /\ c_doc.items[j].k = EnvKey
        /\ c_doc.items[j].v.items[1].k > c_doc.items[j].v.items[2].k

\* C5: verify_receipt succeeds on the receipt sign_receipt returned, for
\* every receipt and keypair, also when the receipt already carried a sign
\* block.
C5_SignVerifyRoundTrip ==
    (s_pc = "verified" /\ s_rec = s_signed) => s_result = "ok"

\* C5 witness: a receipt that carried a sign block when it was signed (only
\* such receipts have ts = 1) was signed again and verified.
C5_Witness ==
    /\ s_pc = "verified"
    /\ s_rec = s_signed
    /\ s_rec.ts = 1
    /\ s_result = "ok"

\* C6 as stated: after any field of a signed receipt was changed,
\* verify_receipt fails.
C6_AnyMutationFails ==
    (s_pc = "verified" /\ s_rec # s_signed) => s_result # "ok"

\* C6 as amended: a change of any field other than sign.alg makes
\* verify_receipt fail, with "signature verify failed" when the sign block is
\* as signed; a change of sign.alg alone is not detected.
C6_CoveredMutationFails ==
    (s_pc = "verified" /\ s_rec # s_signed) =>
        LET algOnly == s_rec = [s_signed EXCEPT !.sign.alg = s_rec.sign.alg]
        IN  /\ algOnly => s_result = "ok"
            /\ ~algOnly => s_result # "ok"
            /\ s_rec.sign = s_signed.sign => s_result = "signature verify failed"

\* C6 witness: ts of a signed receipt was changed and the receipt verified.
C6_Witness ==
    /\ s_pc = "verified"
    /\ s_rec.ts # s_signed.ts
    /\ s_rec.sign = s_signed.sign
    /\ s_result = "signature verify failed"

\* C7: verify of an anchored receipt whose op.target (or another field the
\* leaf covers) was changed without recomputing the leaf fails with "leaf
\* mismatch", never with a path mismatch and never VERIFIED.
C7_TamperedIsLeafMismatch ==
    cli_out.cmd = "verify" =>
        /\ anchored.target # EmitTarget => cli_out.result = "leaf mismatch"
        /\ canonical_leaf_hex(anchored) # anchored.leaf
              => cli_out.result = "leaf mismatch"

\* C7 witness: a receipt anchored in a sealed batch, whose path folds to the
\* sealed root, was edited in op.target and then verified.
C7_Witness ==
    /\ cli_out.cmd = "verify"
    /\ cli_out.result = "leaf mismatch"
    /\ anchored.target # EmitTarget
    /\ rootDoc.present
    /\ fold_path_to_root(anchored.leaf, anchored.merkle.path) = rootDoc.root

\* C8: a POST verify answered bad-request, forbidden or unprocessable has
\* made no ledger write; a parseable bundle whose actor is missing from a
\* configured allow-list is answered forbidden and has made none.
C8_RejectedWritesNothing ==
    \A r \in DOMAIN g_pc :
        g_pc[r] = "done" =>
            /\ g_resp[r].status \in {"bad_request", "forbidden", "unprocessable"}
                  => ~g_wrote[r]
            /\ ( /\ ReachesGuard(g_body[r])
                 /\ peersFile.exists /\ peersFile.parses
                 /\ peersFile.allow_ids # {}
                 /\ g_body[r].receipt.rcpt.actor \notin peersFile.allow_ids )
                  => g_resp[r].status = "forbidden" /\ ~g_wrote[r]

\* C8 witness: with entries in the ledger, a request of an actor missing from
\* the allow-list has been answered forbidden without a write.
C8_Witness ==
    \E r \in DOMAIN g_pc :
        /\ g_pc[r] = "done"
        /\ g_resp[r].status = "forbidden"
        /\ ~g_wrote[r]
        /\ \E d \in DOMAIN ledger : ledger[d] = "full"

\* The class of a finished request, from its body, the guard, and what
\* happened to it while it ran.
OutcomeClass(r) ==
    LET b == g_body[r]
    IN  IF g_expired[r] THEN "request_timeout"
        ELSE IF ~ReachesGuard(b) THEN "bad_request"
        ELSE IF ~allowed(guard, b.receipt.rcpt.actor) THEN "forbidden"
        ELSE IF verify_receipt(b.receipt.rcpt) # "ok" THEN "unprocessable"
        ELSE IF g_iofail[r] THEN "internal_error"
        ELSE "verified"

\* C9: the status of every finished POST verify is the one of its class:
\* request-timeout when its deadline expired, else bad-request for malformed
\* input, forbidden for a disallowed actor, unprocessable for a signature
\* failure, internal-error for a storage failure, and verified (with the
\* receipt digest and a root) only when every stage passed.
C9_StatusByClass ==
    \A r \in DOMAIN g_pc :
        (g_pc[r] = "done" /\ g_read[r] = NoRead) =>
            /\ g_resp[r].status = OutcomeClass(r)
            /\ g_resp[r].status = "verified" =>
                  /\ g_resp[r].receipt_digest = blake3_hex(g_body[r].receipt)
                  /\ g_resp[r].merkle_root # NoRoot

\* C9 apart from the deadline: the same, for the requests whose deadline did
\* not expire while they ran.
C9_StatusByClassWithinDeadline ==
    \A r \in DOMAIN g_pc :
        (g_pc[r] = "done" /\ g_read[r] = NoRead /\ ~g_expired[r]) =>
            /\ g_resp[r].status = OutcomeClass(r)
            /\ g_resp[r].status = "verified" =>
                  /\ g_resp[r].receipt_digest = blake3_hex(g_body[r].receipt)
                  /\ g_resp[r].merkle_root # NoRoot

\* C10: a request whose pipeline was still running when its deadline expired
\* is answered request-timeout.
C10_ExpiredIsTimedOut ==
    \A r \in DOMAIN g_pc :
        (g_pc[r] = "done" /\ g_expired[r]) => g_resp[r].status = "request_timeout"

\* C11: the merkle_root of a verified response covers every receipt digest
\* that was stored in full when the request began.
C11_RootCoversCompletedWrites ==
    \A r \in DOMAIN g_pc :
        (g_pc[r] = "done" /\ g_resp[r].status = "verified") =>
            \A d \in g_seen[r] :
                validate_receipt(DocCatalogue[d]) =>
                    d \in Range(g_resp[r].merkle_root.blake3)

\* C12: a read of digest D that began after an add of D had completed
\* observes the bytes whose hash is D: never no file, an empty file or a
\* part of the bytes.
C12_ReadAfterAddSeesBytes ==
    \A r \in DOMAIN g_pc :
        (g_pc[r] = "done" /\ g_read[r] # NoRead /\ g_read[r].digest \in g_seen[r]) =>
            g_read[r].content = "full"

\* The requests that have truncated the file of digest d and not yet written
\* its bytes.
Writing(d) ==
    {q \in DOMAIN g_pc :
        \/ g_pc[q] = "write_receipt" /\ blake3_hex(g_body[q].receipt) = d
        \/ g_pc[q] = "write_provenance" /\ blake3_hex(g_body[q].provenance) = d}

\* C13: an add of bytes that were already stored returns the digest the
\* file is named by, is not an error (only a storage failure is), and once
\* it has completed the ledger holds for that digest what it held after the
\* first add: one entry, with all of its bytes (as long as no add of the
\* digest is under way and no storage operation has failed).
C13_AddIdempotent ==
    /\ \A r \in DOMAIN g_pc :
          LET d == blake3_hex(g_body[r].receipt)
          IN  ( /\ g_read[r] = NoRead
                /\ d \in g_seen[r]
                /\ \/ g_pc[r] \in {"add_provenance", "write_provenance", "list"}
                   \/ g_pc[r] = "done" /\ g_resp[r].status = "verified" )
              => /\ g_digest[r] = d
                 /\ (Writing(d) = {} /\ \A q \in DOMAIN g_pc : ~g_iofail[q])
                        => ledger[d] = "full"
    /\ \A r \in DOMAIN g_pc :
          (g_pc[r] = "done" /\ g_resp[r].status = "internal_error") => g_iofail[r]
    /\ \A r \in DOMAIN g_pc :
          \A i, j \in DOMAIN g_list[r] :
              g_list[r][i].digest = g_list[r][j].digest => i = j

\* C13 witness: a request that re-added a stored receipt was answered
\* verified, and the ledger holds the receipt in full.
C13_Witness ==
    \E r \in DOMAIN g_pc :
        /\ g_pc[r] = "done"
        /\ g_resp[r].status = "verified"
        /\ blake3_hex(g_body[r].receipt) \in g_seen[r]
        /\ g_resp[r].receipt_digest = blake3_hex(g_body[r].receipt)
        /\ ledger[g_resp[r].receipt_digest] = "full"

\* The allow-list a peers.toml configures: none when the file is missing or
\* does not parse.
AllowList(file) == IF file.exists /\ file.parses THEN file.allow_ids ELSE {}

\* C14: once the guard is loaded, allowed(id) is true for every id when the
\* allow-list is absent or empty, and true exactly for the listed ids when it
\* is non-empty; POST verify answers forbidden exactly for the parseable
\* bundles of ids that are not allowed.
C14_DefaultAllow ==
    guard.init =>
        /\ \A id \in 1..(NumKeys + 1) :
              allowed(guard, id) <=>
                  (AllowList(peersFile) = {} \/ id \in AllowList(peersFile))
        /\ \A r \in DOMAIN g_pc :
              (g_pc[r] = "done" /\ ReachesGuard(g_body[r])) =>
                  ( g_resp[r].status = "forbidden" <=>
                      /\ AllowList(peersFile) # {}
                      /\ g_body[r].receipt.rcpt.actor \notin AllowList(peersFile) )

\* C14 witness: under a non-empty allow-list one request of a listed id has
\* passed the gate and one of an unlisted id was answered forbidden.
C14_Witness ==
    /\ guard.init
    /\ AllowList(peersFile) # {}
    /\ \E r, q \in DOMAIN g_pc :
          /\ g_pc[r] = "done" /\ g_resp[r].status = "forbidden"
          /\ g_pc[q] = "done" /\ g_resp[q].status = "verified"
          /\ g_body[q].receipt.rcpt.actor \in AllowList(peersFile)

\* C15: the leaf of a receipt does not depend on its sign block: the leaf
\* computed for the anchored receipt is the one computed for it with the
\* sign block emptied, and verify of a receipt that differs from the
\* anchored one in sign only does not answer "leaf mismatch".
C15_LeafIgnoresSign ==
    anchored # NoFile =>
        /\ canonical_leaf_hex(anchored)
              = canonical_leaf_hex([anchored EXCEPT !.sign = SignNone])
        /\ ( /\ cli_out.cmd = "verify"
             /\ canonical_leaf_hex([anchored EXCEPT !.sign = SignNone]) = anchored.leaf )
              => cli_out.result # "leaf mismatch"

\* C16: the allow-list is the one peers.toml held when the process started:
\* every request that reached the policy gate was let through exactly when
\* the guard built from that file allows its actor, whatever became of the
\* file afterwards.
C16_PolicyFixedAtStart ==
    \A r \in DOMAIN g_pc :
        (g_pc[r] \notin {"idle", "validate"} /\ ReachesGuard(g_body[r])) =>
            ( (g_pc[r] = "done" /\ g_resp[r].status = "forbidden")
                <=> ~allowed(PeerGuardNew(g_start), g_body[r].receipt.rcpt.actor) )

\* The kind of a file by the schemas, from the bytes it holds.
KindOfBytes(content, doc) ==
    IF content # "full" THEN "unknown"
    ELSE IF doc.schema = "receipt" THEN "receipt"
    ELSE IF doc.schema = "provenance" THEN "provenance"
    ELSE "unknown"

\* C17: every list() returns one entry per file of the directory, each with
\* the kind its bytes have when they are read: receipt if they satisfy the
\* receipt schema, else provenance if they satisfy the provenance schema,
\* else unknown; a directory of one valid receipt and one valid provenance
\* lists two entries, one of each kind.
C17_ListClassifiesFromBytes ==
    [][ \A r \in DOMAIN g_pc :
          (g_pc[r] = "list" /\ g_pc'[r] = "done" /\ g_resp'[r].status = "verified") =>
              LET out == g_list'[r]
              IN  /\ {out[k].digest : k \in DOMAIN out} = Listed
                  /\ Len(out) = Cardinality(Listed)
                  /\ \A k \in DOMAIN out :
                        out[k].kind = KindOfBytes(ledger[out[k].digest],
                                                  DocCatalogue[out[k].digest])
                  /\ ( /\ Cardinality(Listed) = 2
                       /\ Listed = Stored
                       /\ \E d \in Listed : DocCatalogue[d].schema = "receipt"
                       /\ \E d \in Listed : DocCatalogue[d].schema = "provenance" )
                      => {out[k].kind : k \in DOMAIN out} = {"receipt", "provenance"}
      ]_vars

\* C17 witness: a list() of a directory holding one receipt and one
\* provenance returned two entries, one of each kind.
C17_Witness ==
    \E r \in DOMAIN g_pc :
        /\ g_pc[r] = "done"
        /\ Len(g_list[r]) = 2
        /\ {g_list[r][k].kind : k \in DOMAIN g_list[r]} = {"receipt", "provenance"}

\* The digests a list() result classified as receipts.
ReceiptKind(out) == {out[k].digest : k \in {j \in DOMAIN out : out[j].kind = "receipt"}}

\* C18: the root of every verified response is merkle_root of the ascending
\* sequence of the receipt-kind digests the listing found, whatever order the
\* directory was enumerated in, and it is not the empty root.
C18_RootOfReceiptSet ==
    \A r \in DOMAIN g_pc :
        (g_pc[r] = "done" /\ g_resp[r].status = "verified") =>
            /\ g_resp[r].merkle_root = merkle_root(SortedSeqOf(ReceiptKind(g_list[r])))
            /\ g_resp[r].merkle_root # NoRoot

\* C18 witness: a verified response whose listing met two receipts in
\* descending order of digest.
C18_Witness ==
    \E r \in DOMAIN g_pc :
        /\ g_pc[r] = "done"
        /\ g_resp[r].status = "verified"
        /\ \E i, j \in DOMAIN g_list[r] :
              /\ i < j
              /\ g_list[r][i].kind = "receipt"
              /\ g_list[r][j].kind = "receipt"
              /\ g_list[r][i].digest > g_list[r][j].digest

\* C19: whenever anchor ran on a receipt whose stored leaf is not among the
\* leaves of the receipt files of the directory (an empty directory
\* included), it ended with the not-found error.
C19_AbsentLeafNotFound ==
    (cli_out.cmd = "anchor" /\ anchored.leaf \notin DirLeafSet) =>
        cli_out.result = "leaf not found in set"

\* C19, second part: an anchor that fails leaves the anchored receipt file
\* as it was.
C19_NoPartialResult ==
    [][ (cli_out'.cmd = "anchor" /\ cli_out'.result # "ANCHORED") =>
            anchored' = anchored ]_vars

\* An anchor against an empty directory, and one of a receipt whose leaf the
\* directory does not hold, ended with the not-found error.
C19_NotFoundReached ==
    /\ cli_out = Out("anchor", "leaf not found in set")
    /\ Present # {}
    /\ anchored.leaf \notin DirLeafSet

\* C20: build_merkle of no leaves returns the empty-root sentinel and no
\* paths, and a seal over a directory without receipts ends SEALED with a
\* root document holding the sentinel and count 0.
C20_EmptySealSucceeds ==
    /\ build_merkle(<<>>) = [root |-> EmptyRoot, paths |-> <<>>]
    /\ (cli_out.cmd = "seal" /\ Present = {}) =>
            /\ cli_out.result = "SEALED"
            /\ rootDoc = [date |-> SealDate, root |-> EmptyRoot, count |-> 0,
                          present |-> TRUE]

\* C20 witness: seal has run over a directory without receipts.
C20_Witness ==
    /\ cli_out = Out("seal", "SEALED")
    /\ Present = {}
    /\ rootDoc.present

\* C21: a bundle that passed the schemas and the typed parse and whose actor
\* the guard does not allow is answered forbidden, whatever its sign block;
\* unprocessable is answered only to bundles of allowed actors.
C21_PolicyBeforeSignature ==
    \A r \in DOMAIN g_pc :
        (g_pc[r] = "done" /\ g_read[r] = NoRead) =>
            LET b == g_body[r]
                a == b.receipt.rcpt.actor
            IN  /\ (ReachesGuard(b) /\ ~allowed(guard, a)) =>
                        g_resp[r].status = "forbidden"
                /\ g_resp[r].status = "unprocessable" =>
                        (ReachesGuard(b) /\ allowed(guard, a))

\* C21 witness: a bundle with a malformed sign block from an actor that is
\* not allowed was answered forbidden.
C21_Witness ==
    \E r \in DOMAIN g_pc :
        /\ g_pc[r] = "done"
        /\ g_resp[r].status = "forbidden"
        /\ verify_receipt(g_body[r].receipt.rcpt) \in {"bad public b64", "bad signature"}

\* The root the Merkle engine builds over a list of digests, written as
\* merkle_root writes a digest: "" is NoRoot; a single leaf is returned as it
\* is and a parent is blake3 over the decoded bytes of two digests
\* (hex_concat_ordered), neither of them a blake3 over hex text, which the
\* negated code marks.
EngineRoot(digests) ==
    LET root == build_merkle(digests).root
    IN  IF root = EmptyRoot THEN NoRoot ELSE [blake3 |-> <<-root>>]

\* C22: the root of every verified response equals the root build_merkle
\* computes over the same sorted receipt digests.
C22_GatewayRootIsEngineRoot ==
    \A r \in DOMAIN g_pc :
        (g_pc[r] = "done" /\ g_resp[r].status = "verified") =>
            g_resp[r].merkle_root = EngineRoot(SortedSeqOf(ReceiptKind(g_list[r])))

\* A verified response over no receipt digests: the engine's root is "",
\* the gateway's a blake3 digest.
C22_EmptyListReached ==
    \E r \in DOMAIN g_pc :
        /\ g_pc[r] = "done"
        /\ g_resp[r].status = "verified"
        /\ ReceiptKind(g_list[r]) = {}
        /\ build_merkle(<<>>).root = EmptyRoot
        /\ g_resp[r].merkle_root # NoRoot

\* C23: seal, anchor and verify use a stored leaf only when it equals the
\* leaf recomputed from the record: after a seal every receipt file of the
\* directory (each gave a leaf to the root) has its canonical leaf, after a
\* successful anchor the anchored receipt has it, and after a successful
\* verify the verified receipt has it.
C23_LeafNeverTrusted ==
    /\ cli_out = Out("seal", "SEALED") =>
            \A i \in Present : files[i].leaf = canonical_leaf_hex(files[i])
    /\ cli_out = Out("anchor", "ANCHORED") =>
            anchored.leaf = canonical_leaf_hex(anchored)
    /\ cli_out = Out("verify", "VERIFIED") =>
            anchored.leaf = canonical_leaf_hex(anchored)

\* C23, the part about verify alone.
C23_VerifyRecomputes ==
    cli_out = Out("verify", "VERIFIED") => anchored.leaf = canonical_leaf_hex(anchored)

\* A seal counted an edited receipt file whose stored leaf is stale.
C23_StaleLeafSealed ==
    /\ cli_out = Out("seal", "SEALED")
    /\ rootDoc.count = Cardinality(Present)
    /\ \E i \in Present : files[i].leaf # canonical_leaf_hex(files[i])

\* The receipt write of request r has completed.
ReceiptWritten(r) == g_read[r] = NoRead /\ g_digest[r] # 0

\* What C24 says of a request whose receipt write has completed: the
\* provenance is written after the receipt, the receipt's file stays in the
\* ledger (with all its bytes unless a request is rewriting it or a write of
\* it failed), and a storage failure is answered internal-error.
ReceiptKept(r) ==
    LET d == blake3_hex(g_body[r].receipt)
    IN  /\ ledger[d] # "absent"
        /\ (Writing(d) = {} /\ \A q \in DOMAIN g_pc : ~g_iofail[q]) => ledger[d] = "full"
        /\ g_digest[r] = d
        /\ (g_pc[r] = "done" /\ g_iofail[r] /\ ~g_expired[r]) =>
                g_resp[r].status = "internal_error"

\* C24: once a request has written its receipt, the receipt stays in the
\* ledger whatever happens to the request afterwards, and a request whose
\* provenance write or listing failed, or whose deadline expired, is answered
\* with the failure.
C24_NoRollback ==
    \A r \in DOMAIN g_pc :
        ReceiptWritten(r) =>
            /\ ReceiptKept(r)
            /\ (g_pc[r] = "done" /\ (g_expired[r] \/ g_iofail[r])) =>
                    g_resp[r].status \in {"request_timeout", "internal_error"}

\* C24 apart from the deadline's answer.
C24_NoRollbackWithoutTimeout ==
    \A r \in DOMAIN g_pc : ReceiptWritten(r) => ReceiptKept(r)

\* A request failed after its receipt write and the receipt is in the ledger.
C24_FailedAfterReceiptReached ==
    \E r \in DOMAIN g_pc :
        /\ ReceiptWritten(r)
        /\ g_pc[r] = "done"
        /\ g_resp[r].status = "internal_error"
        /\ ledger[blake3_hex(g_body[r].receipt)] = "full"
        /\ ledger[blake3_hex(g_body[r].provenance)] # "full"

\* Hash of the smaller digest followed by the larger.
Parent(a, b) == IF a <= b THEN Blake3Pair(a, b) ELSE Blake3Pair(b, a)

\* The root of the tree over a batch of up to four leaves, by the pairing
\* and duplication rules.
TreeRoot(l) ==
    CASE Len(l) = 1 -> l[1]
      [] Len(l) = 2 -> Parent(l[1], l[2])
      [] Len(l) = 3 -> Parent(Parent(l[1], l[2]), Parent(l[3], l[3]))
      [] Len(l) = 4 -> Parent(Parent(l[1], l[2]), Parent(l[3], l[4]))

\* C25: a trailing odd node is paired with itself and every parent is the
\* hash of the smaller child followed by the larger, whichever side each is
\* on: build_merkle's root of one to four leaves is the root by these rules,
\* for three sorted leaves L1 < L2 < L3 it is
\* parent(parent(L1, L2), parent(L3, L3)), and parent(a, b) = parent(b, a).
C25_OddDuplicationAndOrderedParent ==
    m_pc \in {"built", "folded"} =>
        /\ Len(m_in) \in 1..4 =>
              /\ m_out.root = TreeRoot(m_in)
              /\ m_sorted.root = TreeRoot(SortedSeqOf(Range(m_in)))
        /\ \A a, b \in Range(m_in) \cup {m_out.root} :
              /\ HashOrdered(a, b) = HashOrdered(b, a)
              /\ HashOrdered(a, b) = Parent(a, b)

\* C25 witness: a tree was built over three leaves given in descending order.
C25_Witness ==
    /\ m_pc = "built"
    /\ Len(m_in) = 3
    /\ m_in[1] > m_in[2] /\ m_in[2] > m_in[3]
    /\ m_sorted.root = Parent(Parent(m_in[3], m_in[2]), Parent(m_in[1], m_in[1]))

\* The guard PeerGuard::new builds from an empty allow-list.
EmptyListGuard == PeerGuardNew([exists |-> TRUE, parses |-> TRUE, allow_ids |-> {}])

\* C26: when peers.toml is missing, unreadable or unparsable, the guard is
\* the one of an empty list, it allows every id, and no request is answered
\* forbidden or with an error on account of the file.
C26_FailOpenOnDefect ==
    (guard.init /\ ~(g_start.exists /\ g_start.parses)) =>
        /\ guard = EmptyListGuard
        /\ \A id \in 1..(NumKeys + 1) : allowed(guard, id)
        /\ \A r \in DOMAIN g_pc :
              (g_pc[r] = "done" /\ g_read[r] = NoRead /\ ReachesGuard(g_body[r])) =>
                  /\ g_resp[r].status # "forbidden"
                  /\ g_resp[r].status = "internal_error" => g_iofail[r]

\* C26 witness: under a peers.toml that names an id in a shape that does not
\* parse, a request of another id was verified.
C26_Witness ==
    /\ guard.init
    /\ g_start.exists /\ ~g_start.parses /\ g_start.allow_ids # {}
    /\ \E r \in DOMAIN g_pc :
          /\ g_pc[r] = "done"
          /\ g_resp[r].status = "verified"
          /\ g_body[r].receipt.rcpt.actor \notin g_start.allow_ids

\* The posted receipt document without its unknown top-level member.
Twin(doc) == [doc EXCEPT !.extra = 0]

\* C27: a receipt document carrying a top-level member the typed Receipt
\* does not know passes or fails the checks of verify_bundle exactly as the
\* document without it, sign block unchanged; when it is verified it is
\* stored under a digest of its own, different from the other's, and that
\* digest is the one answered and the one the root is computed from.
C27_UnsignedBytesReachLedger ==
    \A r \in DOMAIN g_pc :
        (g_pc[r] = "done" /\ g_read[r] = NoRead /\ g_body[r].receipt.extra # 0) =>
            LET b == g_body[r]
                twin == [b EXCEPT !.receipt = Twin(b.receipt)]
            IN  /\ validate_receipt(b.receipt) /\ b.receipt.typed
                /\ b.receipt.rcpt.sign = twin.receipt.rcpt.sign
                /\ ValidateBundle(b, guard) = ValidateBundle(twin, guard)
                /\ g_resp[r].status = "verified" =>
                      /\ g_resp[r].receipt_digest = blake3_hex(b.receipt)
                      /\ g_resp[r].receipt_digest # blake3_hex(twin.receipt)
                      /\ ledger[g_resp[r].receipt_digest] # "absent"
                      /\ \A k \in DOMAIN g_list[r] :
                            g_list[r][k].kind = "receipt" =>
                                g_list[r][k].digest \in Range(g_resp[r].merkle_root.blake3)

\* C27 witness: two receipts that differ only in the unknown member were
\* both verified and are both stored, under different digests, and the root
\* answered to one of them covers both.
C27_Witness ==
    \E r, q \in DOMAIN g_pc :
        /\ g_pc[r] = "done" /\ g_resp[r].status = "verified"
        /\ g_pc[q] = "done" /\ g_resp[q].status = "verified"
        /\ g_body[r].receipt.extra # 0
        /\ g_body[q].receipt = Twin(g_body[r].receipt)
        /\ g_resp[r].receipt_digest # g_resp[q].receipt_digest
        /\ ledger[g_resp[r].receipt_digest] = "full"
        /\ ledger[g_resp[q].receipt_digest] = "full"
        /\ {g_resp[r].receipt_digest, g_resp[q].receipt_digest}
              \subseteq Range(g_resp[r].merkle_root.blake3)

====
